---- MODULE Spec2Model ----
(***************************************************************************)
(* A model of backend/app/main.py of ai-pdf-chatbot: the upload handler,   *)
(* the ingestion routine process_document, the registry vector_stores and  *)
(* the ask handler, with the LangChain calls they make (PyPDFLoader,       *)
(* RecursiveCharacterTextSplitter, FAISS, RetrievalQA) modelled by what    *)
(* they compute.                                                           *)
(*                                                                         *)
(* Text.  A string is a sequence of natural numbers: 0 stands for one      *)
(* whitespace character (a blank), n > 0 for a run of n characters that    *)
(* are not whitespace.  Two runs are never adjacent.  The texts considered *)
(* hold no line break, so of the splitter's separators ["\n\n", "\n", " ", *)
(* ""] only " " and "" ever apply.                                         *)
(*                                                                         *)
(* Assumed: uuid.uuid4() and tempfile.NamedTemporaryFile never repeat a    *)
(* value; a failure is an exception derived from Exception.                *)
(*                                                                         *)
(* Left out: table chats, which save_chat appends a row to (keeping its    *)
(* own failures to itself) and which only GET /chats reads, and the        *)
(* read-only handlers GET /documents, GET /chats and GET /health.          *)
(***************************************************************************)
EXTENDS Integers, Sequences, FiniteSets, TLC

(***************************************************************************)
(* Bounds of the model.                                                    *)
(***************************************************************************)
\* uploads accepted in one behaviour
MaxDocs == 2

(***************************************************************************)
(* Program constants.                                                      *)
(***************************************************************************)
\* main.py:85  RecursiveCharacterTextSplitter(chunk_size=1000, ...)
chunk_size == 1000
\* main.py:86  RecursiveCharacterTextSplitter(..., chunk_overlap=200)
chunk_overlap == 200
\* main.py:159  search_kwargs={"k": 3}
k == 3

None == "None"

Min(a, b) == IF a < b THEN a ELSE b
Max(a, b) == IF a > b THEN a ELSE b

(***************************************************************************)
(* Strings.                                                                *)
(***************************************************************************)
RECURSIVE StrLen(_)
\* len(text)
StrLen(s) ==
  IF s = <<>> THEN 0
  ELSE (IF Head(s) = 0 THEN 1 ELSE Head(s)) + StrLen(Tail(s))

RECURSIVE LStrip(_)
LStrip(s) == IF s # <<>> /\ Head(s) = 0 THEN LStrip(Tail(s)) ELSE s

RECURSIVE RStrip(_)
RStrip(s) ==
  IF s # <<>> /\ s[Len(s)] = 0 THEN RStrip(SubSeq(s, 1, Len(s) - 1)) ELSE s

\* text.strip()
Strip(s) == RStrip(LStrip(s))

RECURSIVE Sub(_, _, _)
\* text[a:b], the characters at offsets a .. b-1
Sub(s, a, b) ==
  IF s = <<>> \/ b <= 0 THEN <<>>
  ELSE LET h  == Head(s)
           l  == IF h = 0 THEN 1 ELSE h
           lo == Max(a, 0)
           hi == Min(b, l)
           part == IF hi > lo THEN (IF h = 0 THEN <<0>> ELSE <<hi - lo>>)
                   ELSE <<>>
       IN  part \o Sub(Tail(s), a - l, b - l)

RECURSIVE Join(_)
\* "".join(docs)
Join(docs) == IF docs = <<>> THEN <<>> ELSE Head(docs) \o Join(Tail(docs))

HasBlank(s) == \E i \in 1..Len(s) : s[i] = 0

(***************************************************************************)
(* RecursiveCharacterTextSplitter(chunk_size, chunk_overlap), with its     *)
(* defaults keep_separator=True and strip_whitespace=True.                 *)
(***************************************************************************)
RECURSIVE SpacePieces(_)
\* _split_text_with_regex(text, " ", keep_separator=True): the text cut in
\* front of every blank, each blank kept at the head of the piece after it,
\* empty pieces dropped.
SpacePieces(s) ==
  IF s = <<>> THEN <<>>
  ELSE IF Head(s) # 0 THEN <<(<<Head(s)>>)>> \o SpacePieces(Tail(s))
  ELSE IF Len(s) > 1 /\ s[2] # 0
       THEN <<(<<0, s[2]>>)>> \o SpacePieces(SubSeq(s, 3, Len(s)))
       ELSE <<(<<0>>)>> \o SpacePieces(Tail(s))

\* _join_docs(docs, ""): the pieces joined and stripped; <<>> stands for the
\* None it returns for an empty result.
JoinDocs(docs) == Strip(Join(docs))

RECURSIVE PopFront(_, _, _)
\* the inner while loop of _merge_splits (separator "", so separator_len 0):
\* pieces leave the front of current_doc until at most chunk_overlap
\* characters stay and the next piece fits.
PopFront(current_doc, total, len) ==
  IF total > chunk_overlap \/ (total + len > chunk_size /\ total > 0)
  THEN PopFront(Tail(current_doc), total - StrLen(Head(current_doc)), len)
  ELSE [current_doc |-> current_doc, total |-> total]

RECURSIVE MergeLoop(_, _, _, _)
\* the for loop of _merge_splits and the final flush
MergeLoop(splits, docs, current_doc, total) ==
  LET Emit(ds, cur) == IF JoinDocs(cur) # <<>> THEN Append(ds, JoinDocs(cur))
                       ELSE ds
  IN
  IF splits = <<>> THEN Emit(docs, current_doc)
  ELSE LET d   == Head(splits)
           len == StrLen(d)
       IN  IF total + len > chunk_size /\ current_doc # <<>>
           THEN LET p == PopFront(current_doc, total, len)
                IN  MergeLoop(Tail(splits), Emit(docs, current_doc),
                              Append(p.current_doc, d), p.total + len)
           ELSE MergeLoop(Tail(splits), docs,
                          Append(current_doc, d), total + len)

\* _merge_splits(splits, "")
MergeSplits(splits) == MergeLoop(splits, <<>>, <<>>, 0)

RECURSIVE CharWindows(_, _)
\* _split_text(text, [""]): the text is cut into single characters and
\* _merge_splits puts them together again, so the chunks are the windows of
\* chunk_size characters that start every chunk_size - chunk_overlap
\* characters, each stripped, the last one running to the end of the text.
CharWindows(s, start) ==
  LET n   == StrLen(s)
      end == Min(n, start + chunk_size)
      w   == Strip(Sub(s, start, end))
      out == IF w # <<>> THEN <<w>> ELSE <<>>
  IN  IF n - start <= chunk_size THEN out
      ELSE out \o CharWindows(s, start + chunk_size - chunk_overlap)

RECURSIVE SplitLoop(_, _)
\* the loop of _split_text over the pieces: pieces shorter than chunk_size
\* are collected and merged, a longer piece is split by the next separator.
SplitLoop(pieces, good) ==
  LET flush == IF good # <<>> THEN MergeSplits(good) ELSE <<>>
  IN  IF pieces = <<>> THEN flush
      ELSE IF StrLen(Head(pieces)) < chunk_size
           THEN SplitLoop(Tail(pieces), Append(good, Head(pieces)))
           ELSE flush \o CharWindows(Head(pieces), 0)
                      \o SplitLoop(Tail(pieces), <<>>)

\* text_splitter.split_text(text)
SplitText(text) ==
  IF HasBlank(text) THEN SplitLoop(SpacePieces(text), <<>>)
  ELSE CharWindows(text, 0)

(***************************************************************************)
(* The collaborators, by what they compute.                                *)
(***************************************************************************)
\* a file the loader can read, by the texts of its pages
Pdf(pages) == [readable |-> TRUE, pages |-> pages]

\* a file that is no readable PDF
Corrupt == [readable |-> FALSE, pages |-> <<>>]

\* The uploaded files considered.
PDFs ==
  { Corrupt,
    \* two pages, 300 and 401 characters: 701 characters of text in all
    Pdf(<< <<300>>, <<0, 400>> >>),
    \* two pages of 1301 characters each
    Pdf(<< <<700, 0, 600>>, <<700, 0, 600>> >>),
    \* one page without text (a scanned image)
    Pdf(<< <<>> >>) }

\* The question considered: one of 700 characters.
Questions == { <<700>> }

\* str(e) of the exceptions a model call may raise
ExcMsgs == { "timed out", "connection refused" }

\* Document(page_content, metadata={"source": ..., "page": ...})
Document(page_content, source, page) ==
  [page_content |-> page_content,
   metadata |-> [source |-> source, page |-> page]]

\* PyPDFLoader(file_path).load(): one Document per page, pages numbered
\* from 0.
Load(file_path, pdf) ==
  [i \in 1..Len(pdf.pages) |-> Document(pdf.pages[i], file_path, i - 1)]

RECURSIVE SplitDocuments(_)
\* text_splitter.split_documents(documents): every document is split on its
\* own, and each chunk carries the metadata of the document it comes from.
SplitDocuments(documents) ==
  IF documents = <<>> THEN <<>>
  ELSE LET doc    == Head(documents)
           chunks == SplitText(doc.page_content)
       IN  [i \in 1..Len(chunks) |->
              [page_content |-> chunks[i], metadata |-> doc.metadata]]
           \o SplitDocuments(Tail(documents))

\* embeddings.embed_query / embed_documents: a fixed function of the text
\* (here into one dimension).
Embed(text) == StrLen(text)

\* squared L2 distance, the score of FAISS's IndexFlatL2
Distance(u, v) == (u - v) * (u - v)

RECURSIVE Nearest(_, _, _, _)
\* The n entries nearest to query vector qv among those at the positions
\* left, nearest first, the earlier entry first among equals.
Nearest(entries, left, qv, n) ==
  IF n = 0 \/ left = {} THEN <<>>
  ELSE LET best == CHOOSE i \in left : \A j \in left :
                     \/ Distance(entries[i].vector, qv)
                          < Distance(entries[j].vector, qv)
                     \/ /\ Distance(entries[i].vector, qv)
                             = Distance(entries[j].vector, qv)
                        /\ i <= j
       IN  <<entries[best].doc>>
             \o Nearest(entries, left \ {best}, qv, n - 1)

\* vector_store.as_retriever(search_kwargs={"k": 3}) applied to the query
Retrieve(entries, question) ==
  Nearest(entries, DOMAIN entries, Embed(question), k)

\* the loop of ask_question that extracts the sources: "Page n" for every
\* retrieved passage (each has the 'page' metadata PyPDFLoader gives it),
\* n counted from 1
RECURSIVE Sources(_)
Sources(source_documents) ==
  IF source_documents = <<>> THEN <<>>
  ELSE <<(<<"Page ", Head(source_documents).metadata.page + 1>>)>>
         \o Sources(Tail(source_documents))

(***************************************************************************)
(* The state of the program.                                               *)
(***************************************************************************)
VARIABLES
  \* the temporary files written by upload_pdf; a file's path is its index
  tmp_files,
  \* the document ids upload_pdf has generated
  issued,
  \* the document ids upload_pdf has returned in an UploadResponse
  returned,
  \* the calls of process_document, by document id: where each stands and
  \* its local variables
  proc,
  \* the FAISS objects created so far; an object's reference is its index
  heap,
  \* the module-level dict vector_stores: document id -> FAISS reference
  vector_stores,
  \* the ids of the rows of table documents
  db_documents,
  \* the ask_question call in progress
  ask,
  \* the ask_question call that ended last, with its response, until the
  \* next call is under way
  lastAsk

vars == <<tmp_files, issued, returned, proc, heap, vector_stores,
          db_documents, ask, lastAsk>>

\* a document id no upload has generated (request.document_id may be
\* anything, None included)
UnknownId == 0

\* the reference held by a variable that is not bound to a FAISS object
NoRef == 0

\* no ask_question call is in progress
Idle == [pc |-> "idle", document_id |-> UnknownId, question |-> <<>>,
         vector_store |-> NoRef, state |-> None]

\* no ask_question call has ended
NoAsk == [document_id |-> UnknownId, question |-> <<>>, state |-> None,
          cause |-> None, response |-> [status_code |-> 0],
          source_documents |-> <<>>]

\* The event loop is held by a handler that does not await: ask_question
\* from its first line to its response, and upload_pdf while it runs
\* process_document itself (background_tasks is None: the id is generated
\* and not yet returned).
LoopBusy == ask.pc # "idle" \/ issued # returned

\* The lifecycle state of a document id: PENDING from upload until
\* process_document returns, then READY (it returned True) or FAILED (it
\* returned False).
State(d) ==
  IF d \notin issued THEN "UNKNOWN"
  ELSE IF proc[d].ret = None THEN "PENDING"
  ELSE IF proc[d].ret = "True" THEN "READY"
  ELSE "FAILED"

Init ==
  /\ tmp_files = <<>>
  /\ issued = {}
  /\ returned = {}
  /\ proc = <<>>
  /\ heap = <<>>
  /\ vector_stores = <<>>
  /\ db_documents = {}
  /\ ask = Idle
  /\ lastAsk = NoAsk

(***************************************************************************)
(* upload_pdf                                                              *)
(***************************************************************************)
\* A faulty uuid4, to show what C9 rests on: the id is derived from
\* something uploads share, so a later upload gets the id of an earlier one.
uuid4Repeats == IF issued = {} THEN Cardinality(issued) + 1
                ELSE CHOOSE d \in issued : TRUE

\* str(uuid.uuid4()): an id not generated before
uuid4 == Cardinality(issued) + 1

\* process_document(file_path, document_id) before its first line
NewCall(file_path, pc) ==
  [file_path |-> file_path, pc |-> pc, documents |-> <<>>, texts |-> <<>>,
   vector_store |-> NoRef, e |-> None, ret |-> None]

\* A file that is no PDF is refused with status 400, and nothing changes.
UploadRefused ==
  /\ ~LoopBusy
  /\ UNCHANGED vars

\* upload_pdf for a PDF: the file is written and the id generated; with
\* background_tasks given, process_document is queued and the response
\* returned, and without, process_document is called at once.
Upload(pdf, background_tasks) ==
  /\ ~LoopBusy
  /\ Len(tmp_files) < MaxDocs
  /\ LET document_id == uuid4
     IN  /\ tmp_files' = Append(tmp_files, pdf)
         /\ issued' = issued \cup {document_id}
         /\ proc' = [d \in issued' |->
                       IF d = document_id
                       THEN NewCall(Len(tmp_files'),
                                    IF background_tasks THEN "queued"
                                    ELSE "load")
                       ELSE proc[d]]
         /\ returned' = IF background_tasks
                        THEN returned \cup {document_id}
                        ELSE returned
  /\ UNCHANGED <<heap, vector_stores, db_documents, ask, lastAsk>>

\* the return of upload_pdf after the process_document it called
UploadReturn(d) ==
  /\ d \notin returned
  /\ proc[d].pc = "done"
  /\ returned' = returned \cup {d}
  /\ UNCHANGED <<tmp_files, issued, proc, heap, vector_stores, db_documents,
                 ask, lastAsk>>

(***************************************************************************)
(* process_document                                                        *)
(***************************************************************************)
\* A faulty Except, to show what C4 rests on: the failing statement stands
\* outside the try block, so the exception leaves process_document, which
\* returns nothing.
ExceptEscapes(p, e) ==
  [p EXCEPT !.pc = "crashed", !.e = e, !.documents = <<>>, !.texts = <<>>]

\* except Exception as e: print(...); return False
Except(p, e) ==
  [p EXCEPT !.pc = "done", !.e = e, !.ret = "False",
            !.documents = <<>>, !.texts = <<>>]

\* return True
ReturnTrue(p) ==
  [p EXCEPT !.pc = "done", !.ret = "True",
            !.documents = <<>>, !.texts = <<>>]

\* loader = PyPDFLoader(file_path); documents = loader.load()
\* A queued background task starts with it (in a thread of the pool) once
\* the event loop gets to the task.
ProcLoad(d) ==
  /\ \/ proc[d].pc = "load"
     \/ proc[d].pc = "queued" /\ ~LoopBusy
  /\ LET pdf == tmp_files[proc[d].file_path]
     IN  proc' = [proc EXCEPT ![d] =
                    IF ~pdf.readable THEN Except(@, "CorruptFile")
                    ELSE [@ EXCEPT !.pc = "split",
                                   !.documents =
                                      Load(proc[d].file_path, pdf)]]
  /\ UNCHANGED <<tmp_files, issued, returned, heap, vector_stores,
                 db_documents, ask, lastAsk>>

\* texts = text_splitter.split_documents(documents)
ProcSplit(d) ==
  /\ proc[d].pc = "split"
  /\ proc' = [proc EXCEPT ![d].pc = "build",
                          ![d].texts = SplitDocuments(proc[d].documents)]
  /\ UNCHANGED <<tmp_files, issued, returned, heap, vector_stores,
                 db_documents, ask, lastAsk>>

\* A faulty ProcBuild, to show what C7 rests on: the new object is put into
\* vector_stores when it is created, before its entries are added.
ProcBuildPublishing(d) ==
  /\ proc[d].pc = "build"
  /\ proc[d].texts # <<>>
  /\ heap' = Append(heap, <<>>)
  /\ proc' = [proc EXCEPT ![d].pc = "add",
                          ![d].vector_store = Len(heap) + 1]
  /\ vector_stores' = [i \in DOMAIN vector_stores \cup {d} |->
                         IF i = d THEN Len(heap) + 1 ELSE vector_stores[i]]
  /\ UNCHANGED <<tmp_files, issued, returned, db_documents, ask, lastAsk>>

\* FAISS.from_documents(texts, embeddings), its start: the embedding model
\* may fail, no index can be made of no text, and otherwise a new, empty
\* FAISS object is created.
ProcBuild(d) ==
  /\ proc[d].pc = "build"
  /\ \/ /\ proc[d].texts # <<>>
        /\ heap' = Append(heap, <<>>)
        /\ proc' = [proc EXCEPT ![d].pc = "add",
                                ![d].vector_store = Len(heap) + 1]
     \/ /\ proc[d].texts = <<>>
        /\ proc' = [proc EXCEPT ![d] = Except(@, "IndexError")]
        /\ UNCHANGED heap
     \/ /\ proc[d].texts # <<>>
        /\ proc' = [proc EXCEPT ![d] = Except(@, "EmbeddingUnavailable")]
        /\ UNCHANGED heap
  /\ UNCHANGED <<tmp_files, issued, returned, vector_stores, db_documents,
                 ask, lastAsk>>

\* FAISS.from_documents, its loop: the next text enters the new object with
\* its vector; after the last one the object is returned.
ProcAdd(d) ==
  /\ proc[d].pc = "add"
  /\ LET ref == proc[d].vector_store
         i   == Len(heap[ref]) + 1
         doc == proc[d].texts[i]
     IN  /\ heap' = [heap EXCEPT ![ref] =
                       Append(@, [vector |-> Embed(doc.page_content),
                                  doc |-> doc])]
         /\ proc' = [proc EXCEPT ![d].pc =
                       IF i = Len(proc[d].texts) THEN "publish" ELSE "add"]
  /\ UNCHANGED <<tmp_files, issued, returned, vector_stores, db_documents,
                 ask, lastAsk>>

\* A faulty Register, to show what C6 rests on: the index is kept in one
\* module-level variable that every id refers to.
RegisterShared(document_id, vector_store) ==
  [d \in DOMAIN vector_stores \cup {document_id} |-> vector_store]

\* vector_stores[document_id] = vector_store
Register(document_id, vector_store) ==
  [d \in DOMAIN vector_stores \cup {document_id} |->
     IF d = document_id THEN vector_store ELSE vector_stores[d]]

ProcPublish(d) ==
  /\ proc[d].pc = "publish"
  /\ vector_stores' = Register(d, proc[d].vector_store)
  /\ proc' = [proc EXCEPT ![d].pc = "insert"]
  /\ UNCHANGED <<tmp_files, issued, returned, heap, db_documents, ask,
                 lastAsk>>

\* the INSERT INTO documents, its commit, and return True; the database may
\* refuse (it is locked by another writer, or the id is a row already).
ProcInsert(d) ==
  /\ proc[d].pc = "insert"
  /\ \/ /\ d \notin db_documents
        /\ db_documents' = db_documents \cup {d}
        /\ proc' = [proc EXCEPT ![d] = ReturnTrue(@)]
     \/ /\ proc' = [proc EXCEPT ![d] = Except(@, "OperationalError")]
        /\ UNCHANGED db_documents
  /\ UNCHANGED <<tmp_files, issued, returned, heap, vector_stores, ask,
                 lastAsk>>

(***************************************************************************)
(* ask_question                                                            *)
(***************************************************************************)
\* HTTPException(status_code=400,
\*               detail="Document not found or still processing")
NotFoundOrProcessing(document_id) ==
  [status_code |-> 400, detail |-> "Document not found or still processing"]

\* HTTPException(status_code=500,
\*               detail=f"Error processing question: {str(e)}"): of the
\* exception only its message enters the response.
ErrorProcessing(e) ==
  [status_code |-> 500, detail |-> <<"Error processing question: ", e.msg>>]

\* ChatResponse(answer=..., sources=..., document_id=...)
ChatResponse(answer, sources, document_id) ==
  [status_code |-> 200, answer |-> answer, sources |-> sources,
   document_id |-> document_id]

\* the exceptions the embedding model and the generation model may raise
Exceptions(type) == {[type |-> type, msg |-> msg] : msg \in ExcMsgs}

\* if document_id not in vector_stores: raise HTTPException(400, ...)
AskRefused(d, question) ==
  /\ ~LoopBusy
  /\ d \notin DOMAIN vector_stores
  /\ lastAsk' = [document_id |-> d, question |-> question,
                 state |-> State(d),
                 cause |-> IF d \in issued THEN "NotReady" ELSE "NotFound",
                 response |-> NotFoundOrProcessing(d),
                 source_documents |-> <<>>]
  /\ UNCHANGED <<tmp_files, issued, returned, proc, heap, vector_stores,
                 db_documents, ask>>

\* the id is in vector_stores: vector_store = vector_stores[document_id]
AskAccepted(d, question) ==
  /\ ~LoopBusy
  /\ d \in DOMAIN vector_stores
  /\ ask' = [pc |-> "chain", document_id |-> d, question |-> question,
             vector_store |-> vector_stores[d], state |-> State(d)]
  /\ lastAsk' = NoAsk
  /\ UNCHANGED <<tmp_files, issued, returned, proc, heap, vector_stores,
                 db_documents>>

\* except Exception as e: raise HTTPException(500, ...)
AskFailed(e) ==
  /\ lastAsk' = [document_id |-> ask.document_id, question |-> ask.question,
                 state |-> ask.state, cause |-> e.type,
                 response |-> ErrorProcessing(e),
                 source_documents |-> <<>>]
  /\ ask' = Idle

\* qa_chain({"query": question}), the sources, save_chat and the response.
\* The chain embeds the question, reads the k nearest entries of the FAISS
\* object and hands them to the generation model; either model may fail.
AskChain ==
  /\ ask.pc = "chain"
  /\ \/ LET source_documents ==
              Retrieve(heap[ask.vector_store], ask.question)
            answer == <<"answer to ", ask.question>>
        IN  /\ lastAsk' = [document_id |-> ask.document_id,
                           question |-> ask.question, state |-> ask.state,
                           cause |-> None,
                           response |->
                              ChatResponse(answer, Sources(source_documents),
                                           ask.document_id),
                           source_documents |-> source_documents]
            /\ ask' = Idle
     \/ \E e \in Exceptions("EmbeddingUnavailable") : AskFailed(e)
     \/ \E e \in Exceptions("GenerationUnavailable") : AskFailed(e)
  /\ UNCHANGED <<tmp_files, issued, returned, proc, heap, vector_stores,
                 db_documents>>

Next ==
  \/ UploadRefused
  \/ \E pdf \in PDFs, background_tasks \in BOOLEAN :
       Upload(pdf, background_tasks)
  \/ \E d \in issued : UploadReturn(d)
  \/ \E d \in issued : ProcLoad(d)
  \/ \E d \in issued : ProcSplit(d)
  \/ \E d \in issued : ProcBuild(d)
  \/ \E d \in issued : ProcAdd(d)
  \/ \E d \in issued : ProcPublish(d)
  \/ \E d \in issued : ProcInsert(d)
  \/ \E d \in issued \cup {UnknownId}, q \in Questions : AskRefused(d, q)
  \/ \E d \in issued, q \in Questions : AskAccepted(d, q)
  \/ AskChain

Spec == Init /\ [][Next]_vars
(***************************************************************************)
(* The claims.                                                             *)
(***************************************************************************)
Answered == lastAsk.response.status_code = 200

Registered == DOMAIN vector_stores

\* the text and page of a passage, without the file it comes from
Content(doc) == <<doc.page_content, doc.metadata.page>>

\* the passages split_documents makes of each file considered
PassagesOf == [pdf \in PDFs |-> SplitDocuments(Load(0, pdf))]

RECURSIVE FirstAppearances(_, _)
\* seq without the elements that occur earlier in it (or in seen)
FirstAppearances(seq, seen) ==
  IF seq = <<>> THEN <<>>
  ELSE IF Head(seq) \in seen THEN FirstAppearances(Tail(seq), seen)
  ELSE <<Head(seq)>> \o FirstAppearances(Tail(seq), seen \cup {Head(seq)})

\* the page numbers (counted from 1) of the passages, in their order
PagesOf(source_documents) ==
  [i \in DOMAIN source_documents |-> source_documents[i].metadata.page + 1]

\* the page numbers a response cites
CitedPages(response) ==
  [i \in DOMAIN response.sources |-> response.sources[i][2]]

RECURSIVE FullText(_)
\* the whole extracted text of a file: the texts of its pages, in order
FullText(pages) ==
  IF pages = <<>> THEN <<>> ELSE Head(pages) \o FullText(Tail(pages))

\* C1: once process_document has ended, the id has an index in vector_stores
\* if and only if the document is READY (in particular not when
\* process_document failed at any step, the insert into table documents
\* included), and no ask on a FAILED document is answered.
C1_IndexIffReady ==
  /\ \A d \in issued :
       proc[d].pc = "done" => (d \in Registered <=> State(d) = "READY")
  /\ Answered => lastAsk.state # "FAILED"

\* C2: the error returned to an ask on an id that is uploaded but PENDING or
\* FAILED (NotReady) differs from the error returned to an ask on an id that
\* no upload issued (NotFound).
C2_NotReadyIsNotNotFound ==
  lastAsk.cause = "NotReady"
    => lastAsk.response # NotFoundOrProcessing(UnknownId)

\* C3: the pages cited by a successful ask hold no page twice, stand in the
\* order of first appearance among the retrieved passages, and each is the
\* page of one of the at most 3 passages retrieved.
C3_CitedPagesDeduplicated ==
  Answered =>
    LET cited == CitedPages(lastAsk.response)
        pages == PagesOf(lastAsk.source_documents)
    IN  /\ Len(lastAsk.source_documents) <= 3
        /\ \A i, j \in DOMAIN cited : i # j => cited[i] # cited[j]
        /\ cited = FirstAppearances(pages, {})
        /\ \A i \in DOMAIN cited : \E j \in DOMAIN pages : cited[i] = pages[j]

\* C4: a failure of any step of process_document is caught in it: the call
\* ends returning False (the document is FAILED), no exception leaves it,
\* and it returns False only after such a failure.
C4_FailureIsCaptured ==
  \A d \in issued :
    /\ proc[d].pc \in {"queued", "load", "split", "build", "add", "publish",
                       "insert", "done"}
    /\ proc[d].e # None => proc[d].pc = "done" /\ State(d) = "FAILED"
    /\ State(d) = "FAILED" => proc[d].e # None
    /\ proc[d].pc = "done" <=> State(d) \in {"READY", "FAILED"}

\* C4 happens: an earlier document FAILED at the insert, a later one became
\* READY and an ask on it was answered.
C4_Witness ==
  \E d1, d2 \in issued :
    /\ d1 < d2
    /\ State(d1) = "FAILED" /\ proc[d1].e = "OperationalError"
    /\ State(d2) = "READY"
    /\ Answered /\ lastAsk.document_id = d2 /\ lastAsk.state = "READY"

\* C5: an upload returns its id while the document is PENDING and before
\* process_document has begun on it, and an ask made on the id while the
\* document is PENDING is not answered.
C5_UploadReturnsPending ==
  /\ \A d \in issued : proc[d].pc # "queued" => d \in returned
  /\ Answered => lastAsk.state # "PENDING"

\* C6: every id in vector_stores refers to the index made of the passages
\* of the file uploaded under that id, and of nothing else, and a
\* successful ask on an id has retrieved passages of that file only.
C6_OwnPassagesOnly ==
  /\ \A d \in Registered :
       LET entries == heap[vector_stores[d]]
           path    == proc[d].file_path
           own     == PassagesOf[tmp_files[path]]
       IN  /\ \A i \in DOMAIN entries :
                entries[i].doc.metadata.source = path
           /\ proc[d].pc \in {"insert", "done"} =>
                [i \in DOMAIN entries |-> Content(entries[i].doc)]
                  = [i \in DOMAIN own |-> Content(own[i])]
  /\ ask.pc # "idle" => ask.vector_store = vector_stores[ask.document_id]
  /\ Answered =>
       \A i \in DOMAIN lastAsk.source_documents :
         LET doc  == lastAsk.source_documents[i]
             path == proc[lastAsk.document_id].file_path
             own  == PassagesOf[tmp_files[path]]
         IN  /\ doc.metadata.source = path
             /\ \E j \in DOMAIN own : Content(doc) = Content(own[j])

\* C6 happens: an ask was answered on one document while it and another
\* document, of another file, were both registered and still being ingested.
C6_Witness ==
  /\ Answered
  /\ lastAsk.source_documents # <<>>
  /\ proc[lastAsk.document_id].pc = "insert"
  /\ \E d \in Registered :
       /\ d # lastAsk.document_id
       /\ proc[d].pc = "insert"
       /\ tmp_files[proc[d].file_path]
            # tmp_files[proc[lastAsk.document_id].file_path]

\* C7: in every step, each index in vector_stores (so each index an ask can
\* obtain) has all its entries and no call of process_document is still
\* adding to it, and an index that is in vector_stores is left as it is.
C7_PublishedWhenComplete ==
  [][ /\ \A d \in DOMAIN vector_stores' :
           /\ \A t \in issued' :
                proc'[t].vector_store = vector_stores'[d]
                  => proc'[t].pc \in {"insert", "done"}
           /\ Len(heap'[vector_stores'[d]])
                = Len(PassagesOf[tmp_files'[proc'[d].file_path]])
      /\ \A d \in Registered :
           heap'[vector_stores[d]] = heap[vector_stores[d]]
      /\ ask'.pc # "idle" => ask'.vector_store \in
                               {vector_stores'[d] : d \in DOMAIN vector_stores'}
    ]_vars

\* C7 happens: an ask holds the index of a document whose process_document
\* has not returned, while another index is partly built.
C7_Witness ==
  /\ ask.pc = "chain"
  /\ ask.state = "PENDING"
  /\ proc[ask.document_id].pc = "insert"
  /\ \E d \in issued : proc[d].pc = "add" /\ heap[proc[d].vector_store] # <<>>

\* C8: the error returned when the generation model fails differs from the
\* error returned for any other failure inside ask and from the error for an
\* id that is not in vector_stores, and no answer is returned in its place.
C8_GenerationFailureDistinct ==
  lastAsk.cause = "GenerationUnavailable" =>
    /\ ~Answered
    /\ lastAsk.response # NotFoundOrProcessing(lastAsk.document_id)
    /\ \A e \in Exceptions("EmbeddingUnavailable") :
         lastAsk.response # ErrorProcessing(e)

\* C9: in every step, an id in vector_stores stays in it with the same
\* index, unchanged; a call of process_document that has ended (READY or
\* FAILED) stays as it ended; and vector_stores changes only by a call of
\* process_document adding its own id, which was not in it, never by an ask.
C9_ReadyAndFailedTerminal ==
  [][ /\ \A d \in Registered :
           /\ d \in DOMAIN vector_stores'
           /\ vector_stores'[d] = vector_stores[d]
           /\ heap'[vector_stores[d]] = heap[vector_stores[d]]
      /\ \A d \in issued : proc[d].pc = "done" => proc'[d] = proc[d]
      /\ vector_stores' # vector_stores =>
           /\ ask' = ask /\ lastAsk' = lastAsk
           /\ \E d \in issued \ Registered :
                /\ proc[d].pc = "publish"
                /\ DOMAIN vector_stores' = Registered \cup {d}
    ]_vars

\* C9 happens: after all uploads, a FAILED document and a READY one exist
\* and an ask was answered.
C9_Witness ==
  /\ \E d \in issued : State(d) = "FAILED" /\ d \in Registered
  /\ \E d \in issued : State(d) = "READY"
  /\ Answered
  /\ Len(tmp_files) = MaxDocs

\* C10: a document whose whole extracted text is shorter than chunk_size
\* (and is not blank) is split into exactly one passage, which is the whole
\* text, however many pages it has.
C10_ShortDocumentOnePassage ==
  \A d \in issued :
    LET full == FullText(tmp_files[proc[d].file_path].pages)
    IN  (/\ proc[d].pc \in {"build", "add", "publish", "insert"}
         /\ StrLen(full) < chunk_size
         /\ Strip(full) # <<>>)
        => /\ Len(proc[d].texts) = 1
           /\ proc[d].texts[1].page_content = full
====
